---------------------------- MODULE Spec2Model ----------------------------
(***************************************************************************)
(* A model of pi-benchmark (src/src/main.rs): the series kernel            *)
(* leibniz_pi, the generator next_unit_f64, the sampling kernel            *)
(* monte_carlo_hits, split_work, and the fork-join body of                 *)
(* run_monte_carlo.                                                        *)
(*                                                                         *)
(* Number representation.  TLC's integers are 32 bits wide, so a Rust u64  *)
(* bit pattern (a seed, the generator state, an f64's bits, the loop       *)
(* variable of leibniz_pi) is a sequence of 8 bytes, least significant     *)
(* byte first, and the arithmetic on it is done limb by limb.  Counts that *)
(* stay small in the model (samples, chunk sizes, hit counters, worker     *)
(* indices) are plain naturals.                                            *)
(*                                                                         *)
(* Outside the model: the parsing of the arguments (a run starts with the  *)
(* parsed values), the clock, the building, printing and saving of the     *)
(* result, and a thread::spawn that the system refuses.                    *)
(***************************************************************************)
EXTENDS Integers, Sequences, FiniteSets, TLC

(***************************************************************************)
(* Limb arithmetic on little-endian byte sequences.                        *)
(***************************************************************************)

\* The limb base: one byte.
Base ==
    256

\* The number of bytes of a u64.
U64Bytes ==
    8

\* The natural v as n bytes (v mod 256^n).
RECURSIVE FromNat(_, _)
FromNat(v, n) ==
    IF n = 0 THEN << >> ELSE << v % Base >> \o FromNat(v \div Base, n - 1)

\* `v as u64` for a small natural v.
U64(v) ==
    FromNat(v, U64Bytes)

\* a with zero bytes appended (or high bytes dropped) to make n bytes.
Resize(a, n) ==
    [i \in 1..n |-> IF i <= Len(a) THEN a[i] ELSE 0]

\* Whether the number a is zero.
IsZero(a) ==
    \A i \in 1..Len(a) : a[i] = 0

\* a < b for byte sequences of the same length, compared from the top byte.
RECURSIVE LessFrom(_, _, _)
LessFrom(a, b, i) ==
    IF i = 0 THEN FALSE
    ELSE IF a[i] # b[i] THEN a[i] < b[i]
    ELSE LessFrom(a, b, i - 1)

Less(a, b) ==
    LessFrom(a, b, Len(a))

\* The bytes i..Len(a) of a + b + carry, and after them the carry out.
RECURSIVE AddFrom(_, _, _, _)
AddFrom(a, b, i, carry) ==
    IF i > Len(a) THEN << carry >>
    ELSE LET s == a[i] + b[i] + carry
         IN  << s % Base >> \o AddFrom(a, b, i + 1, s \div Base)

\* a + b with one more byte than a, which holds the carry: never wraps.
AddWide(a, b) ==
    AddFrom(a, b, 1, 0)

\* a.wrapping_add(b): the sum modulo 256^Len(a).
WrappingAdd(a, b) ==
    SubSeq(AddWide(a, b), 1, Len(a))

\* The sum of a[i] * b[k + 1 - i] for i in lo..hi: one column of a product.
RECURSIVE Column(_, _, _, _, _)
Column(a, b, k, lo, hi) ==
    IF lo > hi THEN 0
    ELSE a[lo] * b[k + 1 - lo] + Column(a, b, k, lo + 1, hi)

\* The bytes k..n of the product a * b, with the carry coming into column k.
RECURSIVE MulFrom(_, _, _, _, _)
MulFrom(a, b, k, n, carry) ==
    IF k > n THEN << >>
    ELSE LET lo == IF k > Len(b) THEN k + 1 - Len(b) ELSE 1
             hi == IF k > Len(a) THEN Len(a) ELSE k
             s  == Column(a, b, k, lo, hi) + carry
         IN  << s % Base >> \o MulFrom(a, b, k + 1, n, s \div Base)

\* The product a * b in full: Len(a) + Len(b) bytes, never wraps.
MulWide(a, b) ==
    MulFrom(a, b, 1, Len(a) + Len(b), 0)

\* a.wrapping_mul(b): the product modulo 256^Len(a).
WrappingMul(a, b) ==
    MulFrom(a, b, 1, Len(a), 0)

\* 2^k for k in 0..8.
Pow2(k) ==
    << 1, 2, 4, 8, 16, 32, 64, 128, 256 >>[k + 1]

\* x | y and x ^ y on single bytes, bit by bit.
RECURSIVE OrByte(_, _, _)
OrByte(x, y, bits) ==
    IF bits = 0 THEN 0
    ELSE (IF x % 2 = 1 \/ y % 2 = 1 THEN 1 ELSE 0)
         + 2 * OrByte(x \div 2, y \div 2, bits - 1)

RECURSIVE XorByte(_, _, _)
XorByte(x, y, bits) ==
    IF bits = 0 THEN 0
    ELSE (IF x % 2 # y % 2 THEN 1 ELSE 0)
         + 2 * XorByte(x \div 2, y \div 2, bits - 1)

\* a | b and a ^ b on byte sequences of the same length.
BitOr(a, b) ==
    [i \in 1..Len(a) |-> OrByte(a[i], b[i], 8)]

BitXor(a, b) ==
    [i \in 1..Len(a) |-> XorByte(a[i], b[i], 8)]

\* a >> k, the length kept: whole bytes first, then the k % 8 bits left.
Shr(a, k) ==
    LET n       == Len(a)
        q       == k \div 8
        r       == k % 8
        byte(i) == IF i >= 1 /\ i <= n THEN a[i] ELSE 0
    IN  [i \in 1..n |->
            (byte(i + q) \div Pow2(r)) + (byte(i + q + 1) % Pow2(r)) * Pow2(8 - r)]

\* Bit k (0 the lowest) of a.
Bit(a, k) ==
    IF k \div 8 + 1 > Len(a) THEN 0 ELSE (a[k \div 8 + 1] \div Pow2(k % 8)) % 2

\* a << k, the length kept (bits shifted past the top byte are dropped).
Shl(a, k) ==
    LET n       == Len(a)
        q       == k \div 8
        r       == k % 8
        byte(i) == IF i >= 1 /\ i <= n THEN a[i] ELSE 0
    IN  [i \in 1..n |->
            ((byte(i - q) * Pow2(r)) % Base) + (byte(i - q - 1) \div Pow2(8 - r))]

\* The number of significant bits of the byte v: 0 for zero.
RECURSIVE ByteLen(_)
ByteLen(v) ==
    IF v = 0 THEN 0 ELSE 1 + ByteLen(v \div 2)

\* The number of significant bits of a: 0 for zero, else 1 + the top set bit.
RECURSIVE BitLenFrom(_, _)
BitLenFrom(a, i) ==
    IF i = 0 THEN 0
    ELSE IF a[i] # 0 THEN 8 * (i - 1) + ByteLen(a[i])
    ELSE BitLenFrom(a, i - 1)

BitLen(a) ==
    BitLenFrom(a, Len(a))

\* Whether any of the k lowest bits of a is set.
AnyLowBit(a, k) ==
    \/ \E i \in 1..(k \div 8) : a[i] # 0
    \/ k % 8 # 0 /\ a[k \div 8 + 1] % Pow2(k % 8) # 0

(***************************************************************************)
(* IEEE-754 binary64, as far as the kernels use it.  A non-negative finite *)
(* double is kept as the exact integer it is a multiple of: the generator's*)
(* outputs in units of 2^-52, the squares and their sum in     *)
(* units of 2^-104.  An operation is the exact integer operation followed  *)
(* by RoundF64, the rounding to 53 significant bits (nearest, ties to      *)
(* even) that the hardware applies to the exact result.                    *)
(***************************************************************************)

\* The significand width of an f64, the hidden bit included.
F64Precision ==
    53

\* The exponent field of the doubles in [1, 2): the bias, 0x3FF.
F64Bias ==
    1023

\* The sign bit of an f64 bit pattern.
F64Sign(bits) ==
    Bit(bits, 63)

\* The 11-bit exponent field of an f64 bit pattern: bits 52..62.
F64Exponent(bits) ==
    (bits[7] \div 16) + (bits[8] % 128) * 16

\* The 52-bit fraction field of an f64 bit pattern: bits 0..51, as 8 bytes.
F64Fraction(bits) ==
    [i \in 1..U64Bytes |->
        IF i <= 6 THEN bits[i] ELSE IF i = 7 THEN bits[7] % 16 ELSE 0]

\* The exact integer a rounded to F64Precision significant bits, to nearest,
\* ties to even; a keeps its length, which leaves room for the carry.
RoundF64(a) ==
    LET len == BitLen(a)
    IN  IF len <= F64Precision THEN a
        ELSE LET s       == len - F64Precision
                 kept    == Shr(a, s)
                 half    == Bit(a, s - 1)
                 sticky  == AnyLowBit(a, s - 1)
                 roundUp == half = 1 /\ (sticky \/ Bit(a, s) = 1)
                 q       == IF roundUp
                            THEN WrappingAdd(kept, Resize(<< 1 >>, Len(a)))
                            ELSE kept
             IN  Shl(q, s)

\* What f64::from_bits(bits) - 1.0 could not be kept as: a double outside
\* [0, 3), a negative one, an infinity or a NaN.
OutOfRange ==
    << >>

\* 2^52 as 8 bytes: 1.0 in units of 2^-52.
OneUnit ==
    << 0, 0, 0, 0, 0, 0, 16, 0 >>

\* f64::from_bits(bits) with the `- 1.0` left out: 1 + f / 2^52.
FromBitsOnly(bits) ==
    WrappingAdd(OneUnit, F64Fraction(bits))

\* f64::from_bits(bits) - 1.0 in units of 2^-52, as 8 bytes.  For a pattern
\* with exponent field 0x3FF the double is 1 + f / 2^52 and the difference is
\* f / 2^52 exactly; with exponent field 0x400 it is 2 + 2f / 2^52 and the
\* difference 1 + 2f / 2^52, exact as well.
FromBitsMinusOne(bits) ==
    IF F64Sign(bits) = 0 /\ F64Exponent(bits) = F64Bias
    THEN F64Fraction(bits)
    ELSE IF F64Sign(bits) = 0 /\ F64Exponent(bits) = F64Bias + 1
    THEN WrappingAdd(OneUnit, Shl(F64Fraction(bits), 1))
    ELSE OutOfRange

(***************************************************************************)
(* next_unit_f64: the generator (main.rs 235-240).                         *)
(***************************************************************************)

\* 6364136223846793005 = 0x5851F42D4C957F2D, the multiplier of the LCG.
LcgMultiplier ==
    << 45, 127, 149, 76, 45, 244, 81, 88 >>

\* 0x3FF0_0000_0000_0000: the exponent field of the doubles in [1, 2).
ExponentMask ==
    << 0, 0, 0, 0, 0, 0, 240, 63 >>

\* The right shift that leaves the bits of the state the fraction is made of.
MantissaShift ==
    11

\* *state = state.wrapping_mul(6364136223846793005).wrapping_add(1)
NextState(state) ==
    WrappingAdd(WrappingMul(state, LcgMultiplier), U64(1))

\* let bits = (*state >> 11) | 0x3FF0_0000_0000_0000, of the advanced state.
UnitBits(state) ==
    BitOr(Shr(state, MantissaShift), ExponentMask)

\* next_unit_f64(&mut state): the advanced state, the bit pattern built from
\* it and the double returned.
NextUnitF64(state) ==
    LET next == NextState(state)
        bits == UnitBits(next)
    IN  [state |-> next, bits |-> bits, value |-> FromBitsMinusOne(bits)]

(***************************************************************************)
(* monte_carlo_hits: the sampling kernel (main.rs 222-233).                *)
(***************************************************************************)

\* 1.0 in units of 2^-104, as 15 bytes.
OneSquare ==
    [i \in 1..15 |-> IF i = 14 THEN 1 ELSE 0]

\* x * x as an f64: the exact square (units of 2^-104), rounded.
F64Square(v) ==
    RoundF64(Resize(MulWide(SubSeq(v, 1, 7), SubSeq(v, 1, 7)), 15))

\* x * x + y * y <= 1.0, each operation rounded as the f64 operation is.
InsideUnitCircle(vx, vy) ==
    LET sum == RoundF64(WrappingAdd(F64Square(vx), F64Square(vy)))
    IN  ~Less(OneSquare, sum)

\* let mut rng_state = seed | 1;
SeedState(seed) ==
    BitOr(seed, U64(1))

\* The loop body counting a hit per draw inside the circle instead of one
\* per pair.
HitsBodyPerDraw(state, hits) ==
    LET dx == NextUnitF64(state)
        dy == NextUnitF64(dx.state)
    IN  [state |-> dy.state,
         x     |-> dx,
         y     |-> dy,
         hits  |-> IF dx.value # OutOfRange /\ dy.value # OutOfRange
                      /\ InsideUnitCircle(dx.value, dy.value)
                   THEN hits + 2 ELSE hits]

\* One pass of the loop body: two draws and the test.  The new generator
\* state, the two draws and the counter after `hits += 1`.
HitsBody(state, hits) ==
    LET dx == NextUnitF64(state)
        dy == NextUnitF64(dx.state)
    IN  [state |-> dy.state,
         x     |-> dx,
         y     |-> dy,
         hits  |-> IF dx.value # OutOfRange /\ dy.value # OutOfRange
                      /\ InsideUnitCircle(dx.value, dy.value)
                   THEN hits + 1 ELSE hits]

\* The loop of monte_carlo_hits run to its end from (state, hits) with
\* `left` passes to go.
RECURSIVE HitsLoop(_, _, _)
HitsLoop(state, hits, left) ==
    IF left = 0 THEN hits
    ELSE LET b == HitsBody(state, hits)
         IN  HitsLoop(b.state, b.hits, left - 1)

\* monte_carlo_hits(samples, seed)
MonteCarloHits(samples, seed) ==
    HitsLoop(SeedState(seed), 0, samples)

(***************************************************************************)
(* split_work and the per-worker plan of run_monte_carlo.                  *)
(***************************************************************************)

\* split_work with the quotient rounded up instead of down.
split_work_rounding_up(total, buckets) ==
    << (total + buckets - 1) \div buckets, total % buckets >>

\* fn split_work(total, buckets) -> (total / buckets, total % buckets)
split_work(total, buckets) ==
    << total \div buckets, total % buckets >>

\* 0x9E37_79B9_7F4A_7C15, the multiplier of the seed derivation.
SeedGamma ==
    << 21, 124, 74, 127, 185, 121, 55, 158 >>

\* The chunk with `idx <= remainder` for `idx < remainder`.
ChunkOffByOne(per_thread, remainder, idx) ==
    per_thread + (IF idx <= remainder THEN 1 ELSE 0)

\* let chunk = per_thread + u64::from(idx < remainder as usize);
Chunk(per_thread, remainder, idx) ==
    per_thread + (IF idx < remainder THEN 1 ELSE 0)

\* The seed with `|` for `^`.
SeedForThreadOr(base_seed, idx) ==
    BitOr(base_seed, WrappingMul(SeedGamma, U64(idx + 1)))

\* let seed_for_thread = base_seed ^ (0x9E37..u64.wrapping_mul(idx as u64 + 1));
SeedForThread(base_seed, idx) ==
    BitXor(base_seed, WrappingMul(SeedGamma, U64(idx + 1)))

(***************************************************************************)
(* Bounds of the model and the inputs drawn.                               *)
(***************************************************************************)

\* The largest --samples value a modelled run is given.
MaxSamples ==
    3

\* The largest --threads value, and the largest available_parallelism().
MaxThreads ==
    2

\* The largest --iterations value of a run that starts at k = 0.
MaxIterations ==
    3

\* Option<T>: None is the empty sequence and Some(v) is << v >>.
None ==
    << >>

Some(v) ==
    << v >>

\* The --seed values drawn: an even seed, and the fallback of random_seed.
Seeds ==
    { U64(42), << 239, 190, 173, 222, 239, 190, 173, 222 >> }

\* What random_seed() may return: (nanos ^ 0xA5A5_5A5A_A5A5_5A5A) | 1 for
\* some clock reading; here the reading 0.
RandomSeeds ==
    { << 91, 90, 165, 165, 90, 90, 165, 165 >> }

(***************************************************************************)
(* The state.                                                              *)
(***************************************************************************)

VARIABLES
    mode,          \* "single" | "monte": the mode main dispatched on
    iterations,    \* run_single_threaded: the parsed --iterations (8 bytes)
    samples,       \* run_monte_carlo: the parsed --samples
    threads,       \* run_monte_carlo: the parsed --threads, or None
    seed,          \* run_monte_carlo: the parsed --seed (8 bytes), or None
    pc,            \* where the main thread is
    result,        \* "pending", "Ok" or the Err message returned
    thread_count,  \* threads.unwrap_or_else(default_thread_count)
    base_seed,     \* seed.unwrap_or_else(random_seed)
    plan,          \* (per_thread, remainder) as split_work returned it
    handles,       \* the workers spawned so far, in spawn order
    joined,        \* how many handles the summing iterator has joined
    total_hits,    \* the u128 sum so far
    estimate,      \* None, or the estimate as the exact quotient << num, den >>
    executed,      \* the kernels and helpers called so far
    series         \* the loop of leibniz_pi

vars ==
    << mode, iterations, samples, threads, seed, pc, result, thread_count,
       base_seed, plan, handles, joined, total_hits, estimate, executed, series >>

(***************************************************************************)
(* run_single_threaded (main.rs 102-120) and leibniz_pi (main.rs 213-220). *)
(* Argument parsing, timing, printing and saving are outside the model: a  *)
(* run starts with the parsed values.                                      *)
(***************************************************************************)

\* The most passes of the loop of leibniz_pi a behaviour follows.
MaxSeriesSteps ==
    6

\* What a thread that panicked leaves in `result`.
Panicked ==
    "panicked"

\* 2 * k + 1 in full, as 9 bytes: the number the u64 expression stands for.
Denominator(k) ==
    WrappingAdd(AddWide(k, k), Resize(<< 1 >>, U64Bytes + 1))

\* Whether a 9-byte number is past u64::MAX.
ExceedsU64(full) ==
    full[U64Bytes + 1] # 0

\* run_single_threaded without the `iterations == 0` check.
ValidateSingleUnchecked ==
    /\ mode = "single"
    /\ pc = "validate"
    /\ pc' = "series"
    /\ executed' = executed \cup { "leibniz_pi" }
    /\ UNCHANGED << mode, iterations, samples, threads, seed, result,
                    thread_count, base_seed, plan, handles, joined,
                    total_hits, estimate, series >>

\* The loop of leibniz_pi at `for k`: acc is the f64 sum, in order, of the
\* terms listed since the behaviour began (sign, denominator as computed).
SeriesAt(k) ==
    [k |-> k, terms |-> << >>, passes |-> 0, overflowed |-> FALSE]

\* if iterations == 0 { return Err(..) }; else leibniz_pi is entered.
ValidateSingle ==
    /\ mode = "single"
    /\ pc = "validate"
    /\ IF IsZero(iterations)
       THEN /\ result' = "Iterations must be greater than zero"
            /\ pc' = "done"
            /\ UNCHANGED << executed, series >>
       ELSE /\ pc' = "series"
            /\ executed' = executed \cup { "leibniz_pi" }
            /\ series' = SeriesAt(U64(0))
            /\ UNCHANGED result
    /\ UNCHANGED << mode, iterations, samples, threads, seed, thread_count,
                    base_seed, plan, handles, joined, total_hits, estimate >>

\* One pass of `for k in 0..iterations`: the term's sign and denominator are
\* appended to the terms acc is the f64 sum of.  Where 2 * k + 1 is past
\* u64::MAX a build with overflow checks panics and one without wraps.
LeibnizStep ==
    /\ pc = "series"
    /\ Less(series.k, iterations)
    /\ series.passes < MaxSeriesSteps
    /\ LET full == Denominator(series.k)
           sign == IF series.k[1] % 2 = 0 THEN 1 ELSE -1
       IN  \E overflow_checks \in BOOLEAN :
             IF ExceedsU64(full) /\ overflow_checks
             THEN /\ pc' = "done"
                  /\ result' = Panicked
                  /\ series' = [series EXCEPT !.overflowed = TRUE]
             ELSE /\ series' =
                       [k          |-> WrappingAdd(series.k, U64(1)),
                        terms      |-> Append(series.terms,
                                         << sign, SubSeq(full, 1, U64Bytes) >>),
                        passes     |-> series.passes + 1,
                        overflowed |-> series.overflowed \/ ExceedsU64(full)]
                  /\ UNCHANGED << pc, result >>
    /\ UNCHANGED << mode, iterations, samples, threads, seed, thread_count,
                    base_seed, plan, handles, joined, total_hits, estimate,
                    executed >>

\* The loop is over: 4.0 * acc is returned and the run reports it.
LeibnizDone ==
    /\ pc = "series"
    /\ series.k = iterations
    /\ estimate' = << "4*sum", series.terms >>
    /\ result' = "Ok"
    /\ pc' = "done"
    /\ UNCHANGED << mode, iterations, samples, threads, seed, thread_count,
                    base_seed, plan, handles, joined, total_hits, executed,
                    series >>

(***************************************************************************)
(* run_monte_carlo (main.rs 169-210).                                      *)
(***************************************************************************)

\* The values default_thread_count() may return: available_parallelism() is
\* a NonZeroUsize, and 1 stands in when it is not known.
DefaultThreadCounts ==
    1..MaxThreads

\* unwrap_or_else that ignores the option and always takes the default.
UnwrapOrElseIgnoring(option, other) ==
    other

\* Option::unwrap_or_else.
UnwrapOrElse(option, other) ==
    IF option = None THEN other ELSE option[1]

\* The handle of a worker as thread::spawn leaves it: the closure's captures,
\* and monte_carlo_hits entered with rng_state = seed | 1 and hits = 0.
Spawned(chunk, seed_for_thread) ==
    [chunk  |-> chunk,
     seed   |-> seed_for_thread,
     state  |-> SeedState(seed_for_thread),
     drawn  |-> 0,
     hits   |-> 0,
     x      |-> None,
     y      |-> None,
     status |-> "running",
     joins  |-> 0]

\* The two zero checks, the defaults and split_work (main.rs 169-179).
Validate ==
    /\ mode = "monte"
    /\ pc = "validate"
    /\ \E default_threads \in DefaultThreadCounts, random \in RandomSeeds :
         LET count == UnwrapOrElse(threads, default_threads)
         IN  IF samples = 0
             THEN /\ result' = "Samples must be greater than zero"
                  /\ pc' = "done"
                  /\ UNCHANGED << thread_count, base_seed, plan, executed >>
             ELSE IF count = 0
             THEN /\ result' = "Thread count must be at least 1"
                  /\ thread_count' = count
                  /\ pc' = "done"
                  /\ UNCHANGED << base_seed, plan, executed >>
             ELSE /\ thread_count' = count
                  /\ base_seed' = UnwrapOrElse(seed, random)
                  /\ plan' = split_work(samples, count)
                  /\ executed' = executed \cup { "split_work" }
                  /\ pc' = "spawn"
                  /\ UNCHANGED result
    /\ UNCHANGED << mode, iterations, samples, threads, seed, handles, joined,
                    total_hits, estimate, series >>

\* One pass of `for idx in 0..thread_count`: a worker is spawned.
Spawn ==
    /\ pc = "spawn"
    /\ LET idx == Len(handles)
       IN  /\ handles' = Append(handles,
                Spawned(Chunk(plan[1], plan[2], idx),
                        SeedForThread(base_seed, idx)))
           /\ pc' = IF idx + 1 = thread_count THEN "join" ELSE "spawn"
    /\ executed' = executed \cup { "spawn", "monte_carlo_hits" }
    /\ UNCHANGED << mode, iterations, samples, threads, seed, result,
                    thread_count, base_seed, plan, joined, total_hits,
                    estimate, series >>

\* Worker w runs one pass of the loop of monte_carlo_hits.
WorkerStep(w) ==
    /\ handles[w].status = "running"
    /\ handles[w].drawn < handles[w].chunk
    /\ LET b == HitsBody(handles[w].state, handles[w].hits)
       IN  handles' = [handles EXCEPT ![w] =
               [@ EXCEPT !.state = b.state, !.hits = b.hits,
                         !.x = Some(b.x), !.y = Some(b.y), !.drawn = @ + 1]]
    /\ UNCHANGED << mode, iterations, samples, threads, seed, pc, result,
                    thread_count, base_seed, plan, joined, total_hits,
                    estimate, executed, series >>

\* Worker w leaves the loop and returns hits: its thread ends normally.
WorkerReturn(w) ==
    /\ handles[w].status = "running"
    /\ handles[w].drawn = handles[w].chunk
    /\ handles' = [handles EXCEPT ![w].status = "returned"]
    /\ UNCHANGED << mode, iterations, samples, threads, seed, pc, result,
                    thread_count, base_seed, plan, joined, total_hits,
                    estimate, executed, series >>

\* Worker w's thread ends by a panic instead: join() will give Err.
WorkerPanic(w) ==
    /\ handles[w].status = "running"
    /\ handles' = [handles EXCEPT ![w].status = Panicked]
    /\ UNCHANGED << mode, iterations, samples, threads, seed, pc, result,
                    thread_count, base_seed, plan, joined, total_hits,
                    estimate, executed, series >>

\* A join() that returns without waiting for the worker's thread.
FinishedOrNot(handle) ==
    TRUE

\* Whether h.join() returns: the worker's thread has ended, either way.
Finished(handle) ==
    handle.status # "running"

\* A join that takes the worker's counter whether or not it returned.
JoinValueOfAny(handle) ==
    handle.hits

\* h.join().unwrap_or(0): what the handle contributes to the sum.
JoinValue(handle) ==
    IF handle.status = "returned" THEN handle.hits ELSE 0

\* The summing iterator takes the next handle: join() blocks until that
\* worker has ended, and its value is added to the u128 sum.
Join ==
    /\ pc = "join"
    /\ LET w == joined + 1
       IN  /\ Finished(handles[w])
           /\ total_hits' = total_hits + JoinValue(handles[w])
           /\ handles' = [handles EXCEPT ![w].joins = @ + 1]
           /\ joined' = w
           /\ pc' = IF w = thread_count THEN "estimate" ELSE "join"
    /\ UNCHANGED << mode, iterations, samples, threads, seed, result,
                    thread_count, base_seed, plan, estimate, executed, series >>

\* 4.0 * (total_hits as f64) / (samples as f64): both conversions are exact
\* below 2^53, so is the product, and the estimate is the double nearest to
\* the quotient num / den that is kept here.
Quotient(hits, units) ==
    << 4 * hits, units >>

\* let estimate = ...; the result is built, printed and saved.
Estimate ==
    /\ pc = "estimate"
    /\ estimate' = Quotient(total_hits, samples)
    /\ result' = "Ok"
    /\ pc' = "done"
    /\ UNCHANGED << mode, iterations, samples, threads, seed, thread_count,
                    base_seed, plan, handles, joined, total_hits, executed,
                    series >>

(***************************************************************************)
(* The specifications.                                                     *)
(***************************************************************************)

\* The state a run starts in, with the values parsed from its arguments.
Start(m, n, s, t, sd) ==
    /\ mode = m
    /\ iterations = n
    /\ samples = s
    /\ threads = t
    /\ seed = sd
    /\ pc = "validate"
    /\ result = "pending"
    /\ thread_count = None
    /\ base_seed = None
    /\ plan = None
    /\ handles = << >>
    /\ joined = 0
    /\ total_hits = 0
    /\ estimate = None
    /\ executed = { }
    /\ series = SeriesAt(U64(0))

\* A run of either mode on small inputs, zero included.
Init ==
    \/ \E n \in 0..MaxIterations :
         Start("single", U64(n), 0, None, None)
    \/ \E s \in 0..MaxSamples,
          t \in { None } \cup { Some(n) : n \in 0..MaxThreads },
          sd \in { None } \cup { Some(v) : v \in Seeds } :
         Start("monte", U64(0), s, t, sd)

Workers ==
    \E w \in 1..Len(handles) : WorkerStep(w) \/ WorkerReturn(w) \/ WorkerPanic(w)

Next ==
    \/ ValidateSingle
    \/ LeibnizStep
    \/ LeibnizDone
    \/ Validate
    \/ Spawn
    \/ Workers
    \/ Join
    \/ Estimate

Spec ==
    Init /\ [][Next]_vars

(***************************************************************************)
(* The plan alone, on wider inputs: the main thread up to the last spawn,  *)
(* before any worker is scheduled.                                         *)
(***************************************************************************)

\* The largest --samples and --threads values of a plan.
MaxPlanSamples ==
    12

MaxPlanThreads ==
    8

InitPlan ==
    \E s \in 0..MaxPlanSamples, t \in 0..MaxPlanThreads :
      Start("monte", U64(0), s, Some(t), Some(U64(42)))

NextPlan ==
    \/ Validate
    \/ Spawn

SpecPlan ==
    InitPlan /\ [][NextPlan]_vars

(***************************************************************************)
(* The seed derivation for up to MaxSeedWorkers workers.                   *)
(***************************************************************************)

\* The largest worker count whose seeds are derived.
MaxSeedWorkers ==
    256

\* u64::MAX.
U64Max ==
    [i \in 1..U64Bytes |-> 255]

\* The base seeds drawn: 0, u64::MAX, and the seeds of the other runs.
SeedBases ==
    Seeds \cup RandomSeeds \cup { U64(0), U64Max }

InitSeeds ==
    \E t \in { 1, 2, MaxSeedWorkers }, sd \in SeedBases :
      Start("monte", U64(0), MaxSeedWorkers, Some(t), Some(sd))

NextSeeds ==
    \/ Validate
    \/ Spawn

SpecSeeds ==
    InitSeeds /\ [][NextSeeds]_vars

(***************************************************************************)
(* The sampling kernel on longer chunks: one worker drawing MaxDrawPairs   *)
(* pairs, and two workers sharing one sample (the second has chunk 0).     *)
(***************************************************************************)

\* The most pairs one worker draws.
MaxDrawPairs ==
    120

InitKernel ==
    \E sd \in SeedBases :
      \/ Start("monte", U64(0), MaxDrawPairs, Some(1), Some(sd))
      \/ Start("monte", U64(0), 1, Some(2), Some(sd))

NextKernel ==
    \/ Validate
    \/ Spawn
    \/ Workers
    \/ Join
    \/ Estimate

SpecKernel ==
    InitKernel /\ [][NextKernel]_vars

(***************************************************************************)
(* leibniz_pi far into its loop: the pass for k depends on k alone, so the *)
(* loop is taken up at a k below `iterations` and followed from there.     *)
(***************************************************************************)

\* 2^63 as a u64.
TwoTo63 ==
    << 0, 0, 0, 0, 0, 0, 0, 128 >>

\* The --iterations values drawn: 2^32, 2^63, 2^63 + 1, 2^63 + 4, u64::MAX.
ArithIterations ==
    { << 0, 0, 0, 0, 1, 0, 0, 0 >>, TwoTo63, WrappingAdd(TwoTo63, U64(1)),
      WrappingAdd(TwoTo63, U64(4)), U64Max }

\* The values of k the loop is taken up at.
ArithStarts ==
    { U64(0), << 253, 255, 255, 255, 0, 0, 0, 0 >>,
      << 0, 0, 0, 0, 0, 0, 0, 64 >>,
      << 253, 255, 255, 255, 255, 255, 255, 127 >>,
      << 255, 255, 255, 255, 255, 255, 255, 127 >>,
      TwoTo63,
      << 251, 255, 255, 255, 255, 255, 255, 255 >> }

InitArith ==
    \E n \in ArithIterations, k \in ArithStarts :
      /\ Less(k, n)
      /\ mode = "single"
      /\ iterations = n
      /\ samples = 0
      /\ threads = None
      /\ seed = None
      /\ pc = "series"
      /\ result = "pending"
      /\ thread_count = None
      /\ base_seed = None
      /\ plan = None
      /\ handles = << >>
      /\ joined = 0
      /\ total_hits = 0
      /\ estimate = None
      /\ executed = { "leibniz_pi" }
      /\ series = SeriesAt(k)

NextArith ==
    \/ LeibnizStep
    \/ LeibnizDone

SpecArith ==
    InitArith /\ [][NextArith]_vars

(***************************************************************************)
(* The properties checked.                                                 *)
(***************************************************************************)

\* The sum of the chunk sizes of the handles i..Len(hs).
RECURSIVE SumChunks(_, _)
SumChunks(hs, i) ==
    IF i > Len(hs) THEN 0 ELSE hs[i].chunk + SumChunks(hs, i + 1)

\* Whether every worker of the run has been spawned.
AllLaunched ==
    /\ mode = "monte"
    /\ pc \in { "join", "estimate", "done" }
    /\ plan # None

\* C1: once split_work(samples, thread_count) has returned (base, rem) for
\* samples >= 1 and thread_count >= 1, base * thread_count + rem = samples
\* and 0 <= rem < thread_count.
C1_SplitWorkIsExact ==
    (mode = "monte" /\ plan # None) =>
        /\ samples >= 1
        /\ thread_count >= 1
        /\ plan = split_work(samples, thread_count)
        /\ plan[1] * thread_count + plan[2] = samples
        /\ 0 <= plan[2]
        /\ plan[2] < thread_count

\* C1's case: a split with a quotient above 1 and a remainder above 1.
C1_Witness ==
    /\ plan # None
    /\ plan[1] > 1
    /\ plan[2] > 1

\* C2: worker idx is given base_chunk + 1 samples when idx < remainder and
\* base_chunk otherwise; once all workers are launched their chunk sizes sum
\* to samples, and any two differ by at most 1.
C2_ChunksPartitionSamples ==
    /\ plan # None =>
         \A w \in 1..Len(handles) :
           handles[w].chunk = IF w - 1 < plan[2] THEN plan[1] + 1 ELSE plan[1]
    /\ AllLaunched =>
         /\ Len(handles) = thread_count
         /\ SumChunks(handles, 1) = samples
         /\ \A v, w \in 1..Len(handles) :
              /\ handles[v].chunk - handles[w].chunk <= 1
              /\ handles[w].chunk - handles[v].chunk <= 1

\* C2's case: all of at least three workers launched, the first with a
\* larger chunk than the last.
C2_Witness ==
    /\ AllLaunched
    /\ Len(handles) >= 3
    /\ handles[1].chunk = handles[Len(handles)].chunk + 1
    /\ handles[Len(handles)].chunk >= 1

\* C7: for a worker count of at most 256 the seeds of the workers spawned
\* are pairwise distinct, whatever the base seed.
C7_WorkerSeedsDistinct ==
    (plan # None /\ thread_count <= MaxSeedWorkers) =>
        Cardinality({ handles[w].seed : w \in 1..Len(handles) }) = Len(handles)

\* C7's case: the seeds of a run of more than 200 workers, all launched.
C7_Witness ==
    /\ AllLaunched
    /\ Len(handles) > 200
    /\ Len(handles) = thread_count

\* C6: the counter of monte_carlo_hits is incremented at most once per
\* pair drawn, so a worker's hits never exceed its draws nor its chunk, what
\* it returns is in 0..chunk, and a chunk of 0 returns 0.
C6_HitsWithinChunk ==
    \A w \in 1..Len(handles) :
      /\ 0 <= handles[w].hits
      /\ handles[w].hits <= handles[w].drawn
      /\ handles[w].drawn <= handles[w].chunk
      /\ handles[w].status = "returned" =>
           /\ handles[w].drawn = handles[w].chunk
           /\ handles[w].hits <= handles[w].chunk
           /\ handles[w].chunk = 0 => handles[w].hits = 0

\* C6's case: a worker has returned from a chunk of several pairs with some
\* but not all of them hits.
C6_Witness ==
    \E w \in 1..Len(handles) :
      /\ handles[w].status = "returned"
      /\ handles[w].chunk > 2
      /\ handles[w].hits > 0
      /\ handles[w].hits < handles[w].chunk

\* Whether the draw d, as next_unit_f64 returned it, is a bit pattern of a
\* double in [1, 2) and a value in [0, 1).
InUnitInterval(d) ==
    /\ F64Sign(d.bits) = 0
    /\ F64Exponent(d.bits) = F64Bias
    /\ d.value # OutOfRange
    /\ Less(d.value, OneUnit)

\* C8: every value next_unit_f64 returns, from any seed and over all the
\* draws of a worker, is in [0, 1) and never 1.0: the bit pattern
\* (state >> 11) | 0x3FF0000000000000 encodes a double in [1, 2).
C8_DrawsInUnitInterval ==
    \A w \in 1..Len(handles) :
      /\ handles[w].x # None => InUnitInterval(handles[w].x[1])
      /\ handles[w].y # None => InUnitInterval(handles[w].y[1])

\* C8's case: a worker seeded with an even seed is more than 100 pairs into
\* its draws.
C8_Witness ==
    \E w \in 1..Len(handles) :
      /\ handles[w].seed[1] % 2 = 0
      /\ handles[w].drawn > 100
      /\ handles[w].x # None
      /\ ~IsZero(handles[w].x[1].value)

\* The hits of the workers idx..count - 1 of a plan, each computed by
\* monte_carlo_hits on its chunk and seed.
RECURSIVE PlannedHits(_, _, _, _)
PlannedHits(p, base, idx, count) ==
    IF idx >= count THEN 0
    ELSE MonteCarloHits(Chunk(p[1], p[2], idx), SeedForThread(base, idx))
         + PlannedHits(p, base, idx + 1, count)

\* The total a run of (s, t, sd) sums when every worker returns.
PlannedTotal(s, t, sd) ==
    PlannedHits(split_work(s, t), sd, 0, t)

\* The runs of the model with a seed given, each with the total and the
\* estimate that (samples, thread_count, seed) determine.
PlannedRuns ==
    { << s, t, sd, PlannedTotal(s, t, sd), Quotient(PlannedTotal(s, t, sd), s) >> :
        s \in 1..MaxSamples, t \in 1..MaxThreads, sd \in Seeds }

\* Whether the run has ended with an estimate.
Reported ==
    /\ mode = "monte"
    /\ pc = "done"
    /\ result = "Ok"

\* C3: a run with a seed given in which no worker fails ends with the total
\* and the estimate that (samples, thread_count, seed) determine, however
\* its workers were scheduled.
C3_RunIsDeterministic ==
    ( /\ Reported
      /\ seed # None
      /\ \A w \in 1..Len(handles) : handles[w].status = "returned" )
    => << samples, thread_count, seed[1], total_hits, estimate >> \in PlannedRuns

\* C3's case: a run of two workers with a seed given has ended, both workers
\* returned, with some hits and some misses.
C3_Witness ==
    /\ Reported
    /\ seed # None
    /\ thread_count = 2
    /\ \A w \in 1..Len(handles) : handles[w].status = "returned"
    /\ total_hits > 0
    /\ total_hits < samples

\* The hits of the handles i..Len(hs) whose workers returned.
RECURSIVE SumReturned(_, _)
SumReturned(hs, i) ==
    IF i > Len(hs) THEN 0
    ELSE (IF hs[i].status = "returned" THEN hs[i].hits ELSE 0)
         + SumReturned(hs, i + 1)

\* C4: a worker that panics contributes zero and does not abort the run:
\* the main thread never panics, a panicked worker's handle can be joined
\* like any other, and the estimate reported is 4 * (the hits of the workers
\* that returned) / samples.
C4_PanickedWorkerCountsZero ==
    /\ mode = "monte" => result # Panicked
    /\ ( /\ pc = "join"
         /\ handles[joined + 1].status = Panicked ) => ENABLED Join
    /\ Reported =>
         /\ joined = thread_count
         /\ total_hits = SumReturned(handles, 1)
         /\ estimate = << 4 * SumReturned(handles, 1), samples >>

\* C4's case: a run has reported an estimate although one worker panicked
\* after counting a hit and another returned with a hit.
C4_Witness ==
    /\ Reported
    /\ \E w \in 1..Len(handles) :
         handles[w].status = Panicked /\ handles[w].hits > 0
    /\ \E w \in 1..Len(handles) :
         handles[w].status = "returned" /\ handles[w].hits > 0

\* Whether the run was configured with a zero.
ZeroConfigured ==
    \/ mode = "single" /\ IsZero(iterations)
    \/ mode = "monte" /\ (samples = 0 \/ threads = Some(0))

\* C5: a run configured with zero iterations, samples or threads executes no
\* kernel, no split_work and no spawn, produces no estimate, and ends with
\* an error.
C5_ZeroIsRejectedFirst ==
    ZeroConfigured =>
        /\ executed = { }
        /\ handles = << >>
        /\ plan = None
        /\ estimate = None
        /\ pc \in { "validate", "done" }
        /\ pc = "validate" => result = "pending"
        /\ pc = "done" =>
             result \in { "Iterations must be greater than zero",
                          "Samples must be greater than zero",
                          "Thread count must be at least 1" }

\* C5's case: a run with samples given and zero threads has been rejected.
C5_Witness ==
    /\ mode = "monte"
    /\ samples > 0
    /\ threads = Some(0)
    /\ pc = "done"
    /\ result = "Thread count must be at least 1"

\* C9: never more than thread_count workers are launched; the sum is
\* complete and the estimate computed only when exactly thread_count were
\* launched and each has ended and been joined exactly once; and a running
\* worker, whatever the other workers do, either has pairs left to draw (the
\* loop body waits for nothing) or can return.
C9_JoinAllThenEstimate ==
    /\ plan # None => Len(handles) <= thread_count
    /\ \A w \in 1..Len(handles) :
         /\ handles[w].joins = (IF w <= joined THEN 1 ELSE 0)
         /\ handles[w].joins = 1 => handles[w].status # "running"
         /\ handles[w].status = "running" =>
              \/ handles[w].drawn < handles[w].chunk
              \/ ENABLED WorkerReturn(w)
    /\ (mode = "monte" /\ (pc = "estimate" \/ estimate # None)) =>
         /\ Len(handles) = thread_count
         /\ joined = thread_count
         /\ \A w \in 1..Len(handles) :
              handles[w].status # "running" /\ handles[w].joins = 1

\* C9's case: a run of two workers has reported its estimate, every worker
\* ended and joined once.
C9_Witness ==
    /\ Reported
    /\ estimate # None
    /\ thread_count = 2
    /\ Len(handles) = 2
    /\ \A w \in 1..Len(handles) : handles[w].joins = 1

\* C10: no integer operation other than the generator's and the seed's
\* wrapping multiply-add exceeds its 64-bit range; in particular the series
\* denominator 2 * k + 1 never does.
C10_NoOverflowOutsideGenerator ==
    /\ ~series.overflowed
    /\ result # Panicked

=============================================================================
